---- MODULE Spec2Model ----
(***************************************************************************)
(* State-machine model of src/index.js: the WhatsApp bridge.               *)
(*                                                                         *)
(* JavaScript strings that the code inspects (includes, split, replace)    *)
(* are sequences of one-character strings, so that the string operations   *)
(* are computed and not assumed.  A value that may be null/undefined is a  *)
(* sequence of length 0 (absent) or 1 (present).                           *)
(*                                                                         *)
(* Every action is one run of a callback between two suspension points     *)
(* (await) of the single-threaded event loop.  The variable eff holds what *)
(* the last such run did to the outside world: the timers it armed, the    *)
(* calls it issued and the HTTP response it sent.                          *)
(***************************************************************************)
EXTENDS Integers, Sequences, FiniteSets, TLC

\* ------------------------------------------------------------------ bounds
MaxSessions == 2     \* sessions created by makeWASocket in one behaviour
MaxFetch == 1        \* get_config requests in flight
MaxTasks == 1        \* message handlers suspended in an await
MaxPending == 1      \* Control API requests suspended in an await

\* --------------------------------------------------------- program constants
loggedOut == 401     \* DisconnectReason.loggedOut of the protocol library
ResetDelay == 10000
RetryDelay == 5000

\* ------------------------------------------------------------------ strings
Digits == {"0", "1", "2", "3", "4", "5", "6", "7", "8", "9"}

Str_conflict == <<"c", "o", "n", "f", "l", "i", "c", "t">>
Str_device_removed == <<"d", "e", "v", "i", "c", "e", "_", "r", "e", "m", "o", "v", "e", "d">>
Str_lid == <<"@", "l", "i", "d">>
Str_s_whatsapp_net == <<"@", "s", ".", "w", "h", "a", "t", "s", "a", "p", "p", ".", "n", "e", "t">>
Str_addonmodules == <<"a", "d", "d", "o", "n", "m", "o", "d", "u", "l", "e", "s", ".", "p", "h", "p">>

\* String.prototype.includes
includes(s, sub) ==
    \E i \in 1..(Len(s) - Len(sub) + 1) : SubSeq(s, i, i + Len(sub) - 1) = sub

\* s.split(ch)[0]: the part of s before the first occurrence of ch
RECURSIVE splitFirst(_, _)
splitFirst(s, ch) ==
    IF s = <<>> \/ Head(s) = ch THEN <<>>
    ELSE <<Head(s)>> \o splitFirst(Tail(s), ch)

\* s.replace(/\D/g, "")
isDigit(c) == c \in Digits
replaceNonDigits(s) == SelectSeq(s, isDigit)

\* a || b on possibly absent values (absent and "" are both falsy)
Truthy(v) == v # <<>> /\ v[1] # <<>>
Or(a, b) == IF Truthy(a) THEN a ELSE b

\* ------------------------------------------------------------- input values
ReasonTimedOut == <<"T", "i", "m", "e", "d", " ", "O", "u", "t">>
ReasonConflict == <<"S", "t", "r", "e", "a", "m", " ", "(", "c", "o", "n", "f", "l", "i", "c", "t", ")">>
Str_EIO == <<"E", "I", "O">>

\* lastDisconnect.error.output.statusCode: absent, or a number
Codes == {<<>>, <<loggedOut>>, <<428>>}
\* lastDisconnect.error.message ("" when the error or its message is absent)
Reasons == {<<>>, ReasonTimedOut, ReasonConflict, Str_device_removed}

AuthFiles == {"creds.json", "pre-key-1.json"}
Stages == {"load", "ver0", "ver1"}
Delays == {RetryDelay, ResetDelay}
Sids == 1..MaxSessions

OwnId == <<"1", "5", ":", "3", "@", "s", ".", "w", "h", "a", "t", "s", "a", "p", "p", ".", "n", "e", "t">>
QrDataUrl == <<"data:image/png;base64,QR">>
DefaultKey == <<"y", "o", "u", "r", "_", "s", "e", "c", "r", "e", "t", "_", "k", "e", "y">>

VARIABLES
    running,        \* the process has not been terminated
    listening,      \* app.listen's callback has run
    sock,           \* let sock: 0 is null, else the session it refers to
    sess,           \* the sessions makeWASocket has created
    timers,         \* pending setTimeout(connectToWhatsApp, d), by delay d
    connects,       \* running connectToWhatsApp calls, by the await they are in
    settles,        \* open handlers inside their 5 s settle delay
    qrEnc,          \* connection.update handlers awaiting QRCode.toDataURL
    authFolder,     \* the files of auth_info
    isConnected, qrCode, pairingCode, bridgeStatus, fullErrorInfo,
    apiKey, adminUrl, aiSettings,
    fetches,        \* get_config requests in flight
    tasks,          \* messages.upsert handlers suspended in an await
    pending,        \* Control API handlers suspended in an await
    eff,            \* what the last callback run did
    hist            \* history variables of the properties

lifeVars == <<running, listening, sock, sess, timers, connects, settles, qrEnc>>
statusVars == <<isConnected, qrCode, pairingCode, bridgeStatus, fullErrorInfo>>
linkVars == <<apiKey, adminUrl, aiSettings, fetches>>
ioVars == <<tasks, pending>>
vars == <<lifeVars, authFolder, statusVars, linkVars, ioVars, eff, hist>>

St(text) == [text |-> text, code |-> <<>>, msg |-> <<>>]
NoResp == [status |-> 0, error |-> "", body |-> <<>>]
Eff(op, sid, inp, armed, cleared, calls, resp) ==
    [op |-> op, sid |-> sid, inp |-> inp, armed |-> armed, cleared |-> cleared,
     calls |-> calls, resp |-> resp]

NoSettings == [key |-> <<>>, model |-> <<>>, prompt |-> <<>>]

Live(s) == sess[s].st \in {"new", "open"}
Created == {s \in Sids : sess[s].st # "none"}
Arm_twice(d) == [timers EXCEPT ![d] = @ + 2]
\* setTimeout(connectToWhatsApp, d)
Arm(d) == [timers EXCEPT ![d] = @ + 1]
RemoveAt(q, i) == SubSeq(q, 1, i - 1) \o SubSeq(q, i + 1, Len(q))

\* fetchAiSettings(): the get_config request it issues, if any
fetchAiSettings(url, key) ==
    IF url = <<>> THEN <<>>
    ELSE <<<<"get_config", url, IF includes(url, <<"?">>) THEN "&" ELSE "?", key>>>>

\* logToWhmcs(phone, message, direction): the call, and the log_msg request
\* it issues when the admin URL is linked
logToWhmcs(url, key, phone, message, direction) ==
    <<<<"logToWhmcs", phone, message, direction>>>> \o
    (IF url = <<>> THEN <<>>
     ELSE <<<<"log_msg", url, IF includes(url, <<"?">>) THEN "&" ELSE "?", key,
              phone, message, direction>>>>)

clearAuthFolder_skip(files) == files

\* clearAuthFolder(): every file unlinked, the folder recreated (the file
\* system is taken to work: an unlink that fails is swallowed by the code and
\* would leave the file)
clearAuthFolder(files) == {}

Init ==
    /\ running = TRUE
    /\ listening = FALSE
    /\ sock = 0
    /\ sess = [s \in Sids |-> [st |-> "none", user |-> <<>>]]
    /\ timers = [d \in Delays |-> 0]
    /\ connects = [g \in Stages |-> 0]
    /\ settles = {}
    /\ qrEnc = 0
    /\ authFolder \in {{}, AuthFiles}
    /\ isConnected = FALSE
    /\ qrCode = <<>>
    /\ pairingCode = <<>>
    /\ bridgeStatus = St("Starting...")
    /\ fullErrorInfo = <<>>
    /\ apiKey = DefaultKey
    /\ adminUrl = <<>>
    /\ aiSettings = NoSettings
    /\ fetches = <<>>
    /\ tasks = <<>>
    /\ pending = <<>>
    /\ eff = Eff("init", 0, <<>>, <<>>, FALSE, <<>>, NoResp)
    /\ hist = [after401 |-> FALSE, dirty401 |-> FALSE, owed |-> FALSE,
               resetDisc |-> FALSE, resetEmpty |-> FALSE, resetMark |-> -1,
               errOwed |-> <<>>, errMark |-> 0,
               fetchFailed |-> FALSE, fetchedOk |-> FALSE]

\* ------------------------------------------------- connection lifecycle
\* connectToWhatsApp up to its first await (useMultiFileAuthState)
connectStart ==
    /\ bridgeStatus' = St("Initializing Baileys...")
    /\ connects' = [connects EXCEPT !["load"] = @ + 1]

\* app.listen's callback
Listen ==
    /\ running
    /\ ~listening
    /\ listening' = TRUE
    /\ connectStart
    /\ eff' = Eff("listen", 0, <<>>, <<>>, FALSE, <<>>, NoResp)
    /\ UNCHANGED <<running, sock, sess, timers, settles, qrEnc, authFolder,
                   isConnected, qrCode, pairingCode, fullErrorInfo, linkVars, ioVars,
                   hist>>

\* a reconnect timer fires: setTimeout(connectToWhatsApp, d). Timers run in
\* the order of their expiry: a settle delay (5 s) still pending was started
\* before the reconnect timer (5 s or 10 s) was armed, and elapses first
TimerFire(d) ==
    /\ running
    /\ timers[d] > 0
    /\ settles = {}
    /\ timers' = [timers EXCEPT ![d] = @ - 1]
    /\ connectStart
    /\ eff' = Eff("timer", 0, <<d>>, <<>>, FALSE, <<>>, NoResp)
    /\ UNCHANGED <<running, listening, sock, sess, settles, qrEnc, authFolder, isConnected,
                   qrCode, pairingCode, fullErrorInfo, linkVars, ioVars, hist>>

\* useMultiFileAuthState resolves: the credentials are read from auth_info;
\* connectToWhatsApp goes on to await fetchLatestBaileysVersion
AuthLoaded ==
    /\ running
    /\ connects["load"] > 0
    /\ LET g == IF "creds.json" \in authFolder THEN "ver1" ELSE "ver0"
       IN connects' = [connects EXCEPT !["load"] = @ - 1, ![g] = @ + 1]
    /\ eff' = Eff("load", 0, <<hist.owed, hist.after401, hist.dirty401>>, <<>>, FALSE,
                  <<>>, NoResp)
    /\ hist' = [hist EXCEPT !.after401 = FALSE, !.dirty401 = FALSE, !.owed = FALSE]
    /\ UNCHANGED <<running, listening, sock, sess, timers, settles, qrEnc, authFolder,
                   statusVars, linkVars, ioVars>>

\* the catch of connectToWhatsApp: useMultiFileAuthState or makeWASocket threw
SetupFailure(g) ==
    /\ running
    /\ connects[g] > 0
    /\ connects' = [connects EXCEPT ![g] = @ - 1]
    /\ fullErrorInfo' = <<[message |-> Str_EIO, code |-> <<>>]>>
    /\ bridgeStatus' = [text |-> "Init Error: ", code |-> <<>>, msg |-> Str_EIO]
    /\ timers' = Arm(ResetDelay)
    /\ eff' = Eff("setup_failure", 0, <<>>, <<ResetDelay>>, FALSE, <<>>, NoResp)
    /\ hist' = [hist EXCEPT !.errOwed = fullErrorInfo',
                            !.errMark = Cardinality(Created)]
    /\ UNCHANGED <<running, listening, sock, sess, settles, qrEnc, authFolder,
                   isConnected, qrCode, pairingCode, linkVars, ioVars>>

\* fetchLatestBaileysVersion resolves or fails (the hardcoded version is kept),
\* makeWASocket returns the new session and the handlers are registered
SocketCreate(g, latest) ==
    /\ running
    /\ g \in {"ver0", "ver1"}
    /\ connects[g] > 0
    /\ Cardinality(Created) < MaxSessions
    /\ LET s == Cardinality(Created) + 1
       IN /\ sess' = [sess EXCEPT ![s] = [st |-> "new",
                         user |-> IF g = "ver1" THEN <<OwnId>> ELSE <<>>]]
          /\ sock' = s
          /\ eff' = Eff("socket", s, <<latest>>, <<>>, FALSE, <<>>, NoResp)
    /\ connects' = [connects EXCEPT ![g] = @ - 1]
    /\ bridgeStatus' = St("Socket created, waiting for QR/Connection...")
    /\ UNCHANGED <<running, listening, timers, settles, qrEnc, authFolder, isConnected,
                   qrCode, pairingCode, fullErrorInfo, linkVars, ioVars, hist>>

\* connection.update {qr}: the handler awaits QRCode.toDataURL(qr)
QrEvent(s) ==
    /\ running
    /\ sess[s].st = "new"
    /\ qrEnc = 0
    /\ qrEnc' = 1
    /\ eff' = Eff("qr", s, <<>>, <<>>, FALSE, <<>>, NoResp)
    /\ UNCHANGED <<running, listening, sock, sess, timers, connects, settles, authFolder,
                   statusVars, linkVars, ioVars, hist>>

\* QRCode.toDataURL resolved; neither branch on update.connection is taken
QrEncoded ==
    /\ running
    /\ qrEnc = 1
    /\ qrEnc' = 0
    /\ qrCode' = <<QrDataUrl>>
    /\ bridgeStatus' = St("QR Code Generated - SCAN or Use Pairing Code!")
    /\ eff' = Eff("qr_encoded", 0, <<>>, <<>>, FALSE, <<>>, NoResp)
    /\ UNCHANGED <<running, listening, sock, sess, timers, connects, settles, authFolder,
                   isConnected, pairingCode, fullErrorInfo, linkVars, ioVars, hist>>

isFatalAuth_codeOnly(statusCode, reason) == statusCode = <<401>>

\* the test of the first branch of the close handler
isFatalAuth(statusCode, reason) ==
    \/ statusCode = <<401>>
    \/ includes(reason, Str_conflict)
    \/ includes(reason, Str_device_removed)

\* const shouldReconnect = statusCode !== DisconnectReason.loggedOut
shouldReconnect(statusCode) == statusCode # <<loggedOut>>

closeTimers_fatalOnly(statusCode, reason) ==
    IF isFatalAuth(statusCode, reason) THEN <<ResetDelay>> ELSE <<>>

\* the timers the close handler arms
closeTimers(statusCode, reason) ==
    IF isFatalAuth(statusCode, reason) THEN <<ResetDelay>>
    ELSE IF shouldReconnect(statusCode) THEN <<RetryDelay>>
    ELSE <<>>

closeAuth_reasonOnly(statusCode, reason, files) ==
    IF includes(reason, Str_conflict) \/ includes(reason, Str_device_removed)
    THEN {} ELSE files

closeAuth_always(statusCode, reason, files) == {}

\* the credential store after the close handler
closeAuth(statusCode, reason, files) ==
    IF isFatalAuth(statusCode, reason) THEN clearAuthFolder(files) ELSE files

\* connection.update {connection: "close", lastDisconnect}; the library emits
\* a close update without qr, once per session, so the handler runs to its
\* end without an await
CloseEvent(s, statusCode, reason) ==
    /\ running
    /\ Live(s)
    /\ sess' = [sess EXCEPT ![s].st = "closed"]
    /\ isConnected' = FALSE
    /\ fullErrorInfo' = <<[message |-> reason, code |-> statusCode]>>
    /\ bridgeStatus' =
          IF isFatalAuth(statusCode, reason)
          THEN St("Auth Session Error. Resetting in 10s...")
          ELSE [text |-> "Disconnected (). Reconnecting...", code |-> statusCode,
                msg |-> <<>>]
    /\ authFolder' = closeAuth(statusCode, reason, authFolder)
    /\ LET armed == closeTimers(statusCode, reason)
       IN /\ timers' = IF armed = <<>> THEN timers ELSE Arm(armed[1])
          /\ eff' = Eff("close", s, <<statusCode, reason>>, armed,
                        isFatalAuth(statusCode, reason), <<>>, NoResp)
    /\ hist' = IF statusCode = <<401>>
               THEN [hist EXCEPT !.after401 = TRUE,
                                 !.dirty401 = (authFolder # {}),
                                 !.owed = (authFolder' # {}),
                                 !.errOwed = fullErrorInfo',
                                 !.errMark = Cardinality(Created)]
               ELSE [hist EXCEPT !.owed = @ /\ authFolder' # {},
                                 !.errOwed = fullErrorInfo',
                                 !.errMark = Cardinality(Created)]
    /\ UNCHANGED <<running, listening, sock, connects, settles, qrEnc, qrCode, pairingCode,
                   linkVars, ioVars>>

\* connection.update {connection: "open"}: the handler enters its settle delay
OpenEvent(s) ==
    /\ running
    /\ sess[s].st = "new"
    /\ sess' = [sess EXCEPT ![s] = [st |-> "open", user |-> <<OwnId>>]]
    /\ bridgeStatus' = St("Synchronizing session... Please wait 5 seconds.")
    /\ settles' = settles \cup {s}
    /\ eff' = Eff("open", s, <<>>, <<>>, FALSE, <<>>, NoResp)
    /\ UNCHANGED <<running, listening, sock, timers, connects, qrEnc, authFolder, isConnected,
                   qrCode, pairingCode, fullErrorInfo, linkVars, ioVars, hist>>

\* the settle delay of the open handler of session s has elapsed
SettleDone(s) ==
    /\ running
    /\ s \in settles
    /\ settles' = settles \ {s}
    /\ isConnected' = TRUE
    /\ qrCode' = <<>>
    /\ pairingCode' = <<>>
    /\ fullErrorInfo' = <<>>
    /\ bridgeStatus' = St("Connected!")
    /\ LET calls == fetchAiSettings(adminUrl, apiKey)
       IN /\ Len(fetches) + Len(calls) <= MaxFetch
          /\ fetches' = fetches \o calls
          /\ eff' = Eff("settled", s, <<>>, <<>>, FALSE, calls, NoResp)
    /\ hist' = [hist EXCEPT !.resetDisc = FALSE,
                            !.resetMark = IF s > @ THEN -1 ELSE @,
                            !.errOwed = IF s > hist.errMark THEN <<>> ELSE @]
    /\ UNCHANGED <<running, listening, sock, sess, timers, connects, qrEnc, authFolder,
                   apiKey, adminUrl, aiSettings, ioVars>>

\* creds.update / key store writes of a live session: saveCreds writes a file
CredsUpdate(s, f) ==
    /\ running
    /\ Live(s)
    /\ authFolder' = authFolder \cup {f}
    /\ eff' = Eff("creds", s, <<f>>, <<>>, FALSE, <<>>, NoResp)
    /\ hist' = [hist EXCEPT !.resetEmpty = FALSE]
    /\ UNCHANGED <<lifeVars, statusVars, linkVars, ioVars>>

Lifecycle ==
    \/ Listen
    \/ \E d \in Delays : TimerFire(d)
    \/ AuthLoaded
    \/ \E g \in Stages : SetupFailure(g)
    \/ \E g \in Stages, latest \in BOOLEAN : SocketCreate(g, latest)
    \/ \E s \in Sids : QrEvent(s) \/ OpenEvent(s) \/ SettleDone(s)
    \/ QrEncoded
    \/ \E s \in Sids, c \in Codes, r \in Reasons : CloseEvent(s, c, r)
    \/ \E s \in Sids, f \in AuthFiles : CredsUpdate(s, f)

adoptSettings_reset(cfg, settings) ==
    IF cfg # <<>> /\ cfg[1].key # <<>> THEN cfg[1] ELSE NoSettings

\* if (res.data && res.data.openrouter_key) aiSettings = {...}; a failed
\* request (cfg = <<>>) is caught and logged
adoptSettings(cfg, settings) ==
    IF cfg # <<>> /\ cfg[1].key # <<>> THEN cfg[1] ELSE settings

\* a get_config request completes: with a provider key, without one, or in error
FetchDone(i, cfg) ==
    /\ running
    /\ i \in 1..Len(fetches)
    /\ fetches' = RemoveAt(fetches, i)
    /\ aiSettings' = adoptSettings(cfg, aiSettings)
    /\ eff' = Eff("fetched", 0, cfg, <<>>, FALSE, <<>>, NoResp)
    /\ LET ok == cfg # <<>> /\ cfg[1].key # <<>>
       IN hist' = [hist EXCEPT !.fetchFailed = ~ok, !.fetchedOk = @ \/ ok]
    /\ UNCHANGED <<lifeVars, authFolder, statusVars, apiKey, adminUrl, ioVars>>

\* ------------------------------------------------------------ Control API
KeyABC == <<"A", "B", "C">>
UrlX == <<"x", "/", "a", ".", "p", "h", "p">>
RefAddon == <<"x", "/", "a", "d", "d", "o", "n", "m", "o", "d", "u", "l", "e", "s", ".",
              "p", "h", "p", "?", "m", "=", "w", "&", "t", "=", "1">>
RefOther == <<"z", "/", "i", ".", "p", "h", "p">>
PhoneFormatted == <<"+", "1", " ", "(", "5", ")", "-", "7">>
PhoneLetters == <<"a", "b">>
MsgHello == <<"h", "i">>
TestMessage == <<"WHMCS Bridge Test Message">>
PairCode == <<"K7Q2M9XA">>
MsgId == <<"3EB0">>
AiConfig == [key |-> <<"s", "k">>, model |-> <<>>, prompt |-> <<>>]
Str_TypeError == "Cannot read properties of null"
Str_Rejected == "Connection Closed"

StatusQueries ==
    [key : {<<>>, <<KeyABC>>}, admin_url : {<<>>, <<UrlX>>},
     referer : {<<>>, <<RefAddon>>, <<RefOther>>}]

statusLinkage_staleKey(q, key, url) ==
    LET k1 == IF Truthy(q.key) /\ q.key[1] # key THEN q.key[1] ELSE key
        explicit == Truthy(q.admin_url) /\ url # q.admin_url[1]
        u1 == IF explicit THEN q.admin_url[1] ELSE url
    IN [apiKey |-> k1, adminUrl |-> u1,
        calls |-> IF explicit THEN fetchAiSettings(u1, key) ELSE <<>>]

statusLinkage_inferAlways(q, key, url) ==
    LET k1 == IF Truthy(q.key) /\ q.key[1] # key THEN q.key[1] ELSE key
        explicit == Truthy(q.admin_url) /\ url # q.admin_url[1]
        u1 == IF explicit THEN q.admin_url[1] ELSE url
        c1 == IF explicit THEN fetchAiSettings(u1, k1) ELSE <<>>
        inferred == Truthy(q.referer) /\ includes(q.referer[1], Str_addonmodules)
        u2 == IF inferred THEN splitFirst(q.referer[1], "&") ELSE u1
        c2 == IF inferred THEN fetchAiSettings(u2, k1) ELSE <<>>
    IN [apiKey |-> k1, adminUrl |-> u2, calls |-> c1 \o c2]

\* the linkage side effects of a status request, in the order of the code:
\* key, explicit admin_url, admin URL inferred from the referer
statusLinkage(q, key, url) ==
    LET k1 == IF Truthy(q.key) /\ q.key[1] # key THEN q.key[1] ELSE key
        explicit == Truthy(q.admin_url) /\ url # q.admin_url[1]
        u1 == IF explicit THEN q.admin_url[1] ELSE url
        c1 == IF explicit THEN fetchAiSettings(u1, k1) ELSE <<>>
        inferred == /\ u1 = <<>>
                    /\ Truthy(q.referer)
                    /\ includes(q.referer[1], Str_addonmodules)
        u2 == IF inferred THEN splitFirst(q.referer[1], "&") ELSE u1
        c2 == IF inferred THEN fetchAiSettings(u2, k1) ELSE <<>>
    IN [apiKey |-> k1, adminUrl |-> u2, calls |-> c1 \o c2]

\* (sock && sock.user && sock.user.id) ? sock.user.id.split(":")[0] : null
ownNumber ==
    IF sock # 0 /\ sess[sock].user # <<>>
    THEN <<splitFirst(sess[sock].user[1], ":")>> ELSE <<>>

Json(body) == [status |-> 200, error |-> "", body |-> <<body>>]
Err(status, message) == [status |-> status, error |-> message, body |-> <<>>]

\* action=status
ReqStatus(q) ==
    /\ running
    /\ listening
    /\ LET l == statusLinkage(q, apiKey, adminUrl)
       IN /\ Len(fetches) + Len(l.calls) <= MaxFetch
          /\ apiKey' = l.apiKey
          /\ adminUrl' = l.adminUrl
          /\ fetches' = fetches \o l.calls
          /\ eff' = Eff("status", 0, <<q, apiKey, adminUrl>>, <<>>, FALSE, l.calls,
                        Json([connected |-> isConnected, qr |-> qrCode,
                              pairing_code |-> pairingCode, number |-> ownNumber,
                              message |-> bridgeStatus, debug |-> fullErrorInfo]))
    /\ UNCHANGED <<lifeVars, authFolder, statusVars, aiSettings, ioVars, hist>>

pairingArg_raw(phone) == phone

\* phone.replace(/\D/g, ""): the argument of sock.requestPairingCode
pairingArg(phone) == replaceNonDigits(phone)

\* action=get_pairing_code, up to the await of sock.requestPairingCode
ReqPairing(phone) ==
    /\ running
    /\ listening
    /\ IF ~Truthy(phone)
       THEN /\ eff' = Eff("get_pairing_code", 0, <<phone>>, <<>>, FALSE, <<>>,
                          Err(400, "Phone required"))
            /\ UNCHANGED pending
       ELSE IF sock = 0
       THEN /\ eff' = Eff("get_pairing_code", 0, <<phone>>, <<>>, FALSE, <<>>,
                          Err(500, Str_TypeError))
            /\ UNCHANGED pending
       ELSE /\ Len(pending) < MaxPending
            /\ pending' = Append(pending, [kind |-> "pair", sock |-> sock,
                                           raw |-> phone[1],
                                           clean |-> pairingArg(phone[1]),
                                           jid |-> <<>>, text |-> <<>>])
            /\ eff' = Eff("get_pairing_code", sock, <<phone>>, <<>>, FALSE,
                          <<<<"requestPairingCode", sock, pairingArg(phone[1])>>>>,
                          NoResp)
    /\ UNCHANGED <<lifeVars, authFolder, statusVars, linkVars, tasks, hist>>

\* sock.requestPairingCode resolved with a code, or rejected
PairingDone(i, code) ==
    /\ running
    /\ i \in 1..Len(pending)
    /\ pending[i].kind = "pair"
    /\ pending' = RemoveAt(pending, i)
    /\ IF code # <<>>
       THEN /\ pairingCode' = code
            /\ eff' = Eff("pairing_done", pending[i].sock, <<code, pending[i].raw>>, <<>>,
                          FALSE, <<>>, Json([status |-> "success", code |-> code]))
       ELSE /\ pairingCode' = pairingCode
            /\ eff' = Eff("pairing_done", pending[i].sock, <<code, pending[i].raw>>, <<>>,
                          FALSE, <<>>, Err(500, Str_Rejected))
    /\ UNCHANGED <<lifeVars, authFolder, isConnected, qrCode, bridgeStatus,
                   fullErrorInfo, linkVars, tasks, hist>>

\* let target = req.query.to;
\* if (!target && action === "test_msg") target = sock?.user?.id?.split(":")[0]
sendTarget(action, to) ==
    IF ~Truthy(to) /\ action = "test_msg" THEN ownNumber ELSE to

sendOutcome_targetFirst(connected, target) ==
    IF ~Truthy(target) THEN [status |-> 400, error |-> "No target number", body |-> <<>>]
    ELSE IF ~connected
    THEN [status |-> 500, error |-> "Bridge not connected", body |-> <<>>]
    ELSE NoResp

\* what send / test_msg does before it awaits sock.sendMessage
sendOutcome(connected, target) ==
    IF ~connected THEN Err(500, "Bridge not connected")
    ELSE IF ~Truthy(target) THEN Err(400, "No target number")
    ELSE NoResp

\* action=send / action=test_msg, up to the await of sock.sendMessage
ReqSend(action, to, message) ==
    /\ running
    /\ listening
    /\ LET target == sendTarget(action, to)
           out == sendOutcome(isConnected, target)
           clean == replaceNonDigits(target[1])
           jid == clean \o Str_s_whatsapp_net
           text == IF Truthy(message) THEN message[1] ELSE TestMessage
       IN IF out # NoResp
          THEN /\ eff' = Eff(action, 0, <<to, message>>, <<>>,
                             FALSE, <<>>, out)
               /\ UNCHANGED pending
          ELSE IF sock = 0
          THEN /\ eff' = Eff(action, 0, <<to, message>>, <<>>,
                             FALSE, <<>>, Err(500, Str_TypeError))
               /\ UNCHANGED pending
          ELSE /\ Len(pending) < MaxPending
               /\ pending' = Append(pending, [kind |-> "send", sock |-> sock,
                                  raw |-> target[1], clean |-> clean, jid |-> jid,
                                  text |-> text])
               /\ eff' = Eff(action, sock, <<to, message>>, <<>>,
                             FALSE, <<<<"sendMessage", sock, jid, text>>>>, NoResp)
    /\ UNCHANGED <<lifeVars, authFolder, statusVars, linkVars, tasks, hist>>

\* sock.sendMessage resolved with the message key, or rejected
SendDone(i, ok) ==
    /\ running
    /\ i \in 1..Len(pending)
    /\ pending[i].kind = "send"
    /\ pending' = RemoveAt(pending, i)
    /\ LET p == pending[i]
       IN IF ok
          THEN eff' = Eff("send_done", p.sock, <<ok, p.raw, p.text>>, <<>>, FALSE,
                          logToWhmcs(adminUrl, apiKey, p.clean, p.text, "out"),
                          Json([status |-> "success", target |-> p.jid,
                                messageId |-> MsgId]))
          ELSE eff' = Eff("send_done", p.sock, <<ok, p.raw, p.text>>, <<>>, FALSE,
                          <<>>, Err(500, Str_Rejected))
    /\ UNCHANGED <<lifeVars, authFolder, statusVars, linkVars, tasks, hist>>

\* the promise sock.logout() returns
LogoutOutcomes == {"resolves", "rejects"}
\* what the runtime does with a rejected promise nobody handles: it reports
\* it, or terminates the process (--unhandled-rejections, by default since
\* Node 15)
UnhandledModes == {"warn", "throw"}

\* try { sock.logout(); } catch (e) { }: the call is not awaited, so the
\* catch sees a synchronous throw only and a rejection stays unhandled; does
\* the process go on running
logoutSurvived(outcome, mode) == ~(outcome = "rejects" /\ mode = "throw")

\* action=force_reset; a logout that fails at once (the connection of the
\* session is closed) rejects within this run of the handler, after the
\* response was written
ReqForceReset(outcome, mode) ==
    /\ running
    /\ listening
    /\ sock = 0 => outcome = "resolves"
    /\ running' = IF sock # 0 THEN logoutSurvived(outcome, mode) ELSE TRUE
    /\ isConnected' = FALSE
    /\ authFolder' = clearAuthFolder(authFolder)
    /\ eff' = Eff("force_reset", sock, <<isConnected, outcome>>, <<>>, TRUE,
                  IF sock # 0 THEN <<<<"logout", sock>>>> ELSE <<>>,
                  Json([status |-> "reset"]))
    /\ hist' = [hist EXCEPT !.owed = FALSE,
                            !.resetDisc = isConnected \/ @,
                            !.resetEmpty = isConnected \/ @,
                            !.resetMark = IF isConnected THEN Cardinality(Created)
                                          ELSE @]
    /\ UNCHANGED <<listening, sock, sess, timers, connects, settles, qrEnc, qrCode,
                   pairingCode, bridgeStatus, fullErrorInfo, linkVars, ioVars>>

\* any other action: the plain status line
ReqHome ==
    /\ running
    /\ listening
    /\ eff' = Eff("home", 0, <<>>, <<>>, FALSE, <<>>,
                  [status |-> 200, error |-> "", body |-> <<bridgeStatus>>])
    /\ UNCHANGED <<lifeVars, authFolder, statusVars, linkVars, ioVars, hist>>

\* -------------------------------------------------- message dispatcher
JidPn == <<"1", "2", "@", "s", ".", "w", "h", "a", "t", "s", "a", "p", "p", ".", "n", "e", "t">>
JidLid == <<"7", "7", "@", "l", "i", "d">>
PnJid == <<"3", "4", ":", "1", "@", "s", ".", "w", "h", "a", "t", "s", "a", "p", "p", ".", "n", "e", "t">>
PnLid == <<"8", "8", "@", "l", "i", "d">>
MsgYo == <<"y", "o">>
ReplyOk == <<"o", "k">>
DefaultModel == <<"google/gemini-2.0-flash-exp:free">>
DefaultPrompt == <<"You are a helpful assistant.">>

\* msg.message.conversation || msg.message.extendedTextMessage?.text
textOf(m) == Or(<<m.message[1].conversation>>, m.message[1].extendedText)

resolvePhone_anyField(m) ==
    LET fields == <<m.senderPn, m.keyParticipant, m.participant>>
        ok == {i \in 1..3 : Truthy(fields[i]) /\ includes(fields[i][1], Str_s_whatsapp_net)}
    IN IF includes(m.remoteJid, Str_lid) /\ ok # {}
       THEN splitFirst(fields[CHOOSE i \in ok : \A j \in ok : i <= j][1], "@")
       ELSE splitFirst(m.remoteJid, "@")

\* the phone number the dispatcher logs under
resolvePhone(m) ==
    LET sender == m.remoteJid
        phone == splitFirst(sender, "@")
        pn == Or(Or(m.senderPn, m.keyParticipant), m.participant)
    IN IF includes(sender, Str_lid) /\ Truthy(pn) /\ includes(pn[1], Str_s_whatsapp_net)
       THEN splitFirst(pn[1], "@")
       ELSE phone

dispatches_noEcho(type, messages) ==
    /\ type = "notify"
    /\ messages[1].message # <<>>
    /\ Truthy(textOf(messages[1]))

\* the early returns of the messages.upsert handler: is messages[0] processed
dispatches(type, messages) ==
    /\ type = "notify"
    /\ messages[1].message # <<>>
    /\ ~messages[1].fromMe
    /\ Truthy(textOf(messages[1]))

getAiReply_never(settings, userMessage) == <<>>

\* the body of getAiReply up to its await: the completion request
getAiReply(settings, userMessage) ==
    IF settings.key = <<>> THEN <<>>
    ELSE <<<<"completions",
             IF settings.model # <<>> THEN settings.model ELSE DefaultModel,
             IF settings.prompt # <<>> THEN settings.prompt ELSE DefaultPrompt,
             userMessage, settings.key>>>>

\* messages.upsert, up to the await of getAiReply
Upsert(s, type, messages) ==
    /\ running
    /\ Live(s)
    /\ IF ~dispatches(type, messages)
       THEN /\ eff' = Eff("upsert", s, <<type, messages>>, <<>>, FALSE, <<>>, NoResp)
            /\ UNCHANGED tasks
       ELSE LET msg == messages[1]
                text == textOf(msg)[1]
                phone == resolvePhone(msg)
                logs == logToWhmcs(adminUrl, apiKey, phone, text, "in")
                ai == IF aiSettings.key # <<>> THEN getAiReply(aiSettings, text)
                      ELSE <<>>
            IN /\ eff' = Eff("upsert", s, <<type, messages>>, <<>>, FALSE, logs \o ai,
                             NoResp)
               /\ IF aiSettings.key # <<>>
                  THEN /\ Len(tasks) < MaxTasks
                       /\ tasks' = Append(tasks,
                              [stage |-> IF ai = <<>> THEN "noreply" ELSE "ai",
                               sock |-> 0, sender |-> msg.remoteJid, phone |-> phone,
                               text |-> text, reply |-> <<>>, fromMe |-> msg.fromMe])
                  ELSE UNCHANGED tasks
    /\ UNCHANGED <<lifeVars, authFolder, statusVars, linkVars, pending, hist>>

\* getAiReply returns: the completion text, "" or null (request failed);
\* a truthy reply is sent with sock.sendMessage, which the handler awaits
AiDone(i, reply) ==
    /\ running
    /\ i \in 1..Len(tasks)
    /\ tasks[i].stage \in {"ai", "noreply"}
    /\ tasks[i].stage = "noreply" => reply = <<>>
    /\ IF Truthy(reply) /\ sock # 0
       THEN /\ tasks' = [tasks EXCEPT ![i].stage = "send", ![i].sock = sock,
                                      ![i].reply = reply[1]]
            /\ eff' = Eff("ai_done", sock, <<reply>>, <<>>, FALSE,
                          <<<<"sendMessage", sock, tasks[i].sender, reply[1]>>>>, NoResp)
       ELSE /\ tasks' = RemoveAt(tasks, i)
            /\ eff' = Eff("ai_done", sock, <<reply>>, <<>>, FALSE, <<>>, NoResp)
    /\ UNCHANGED <<lifeVars, authFolder, statusVars, linkVars, pending, hist>>

\* sock.sendMessage of the reply resolved (the reply is logged) or rejected;
\* nothing catches the rejection of the handler's promise
AiSendDone(i, ok, mode) ==
    /\ running
    /\ running' = (ok \/ mode = "warn")
    /\ i \in 1..Len(tasks)
    /\ tasks[i].stage = "send"
    /\ tasks' = RemoveAt(tasks, i)
    /\ eff' = Eff("ai_sent", tasks[i].sock, <<ok, tasks[i].phone, tasks[i].reply>>,
                  <<>>, FALSE,
                  IF ok THEN logToWhmcs(adminUrl, apiKey, tasks[i].phone,
                                        tasks[i].reply, "out")
                  ELSE <<>>, NoResp)
    /\ UNCHANGED <<listening, sock, sess, timers, connects, settles, qrEnc,
                   authFolder, statusVars, linkVars, pending, hist>>

Contents == {<<>>, <<[conversation |-> MsgHello, extendedText |-> <<>>]>>,
             <<[conversation |-> <<>>, extendedText |-> <<MsgYo>>]>>,
             <<[conversation |-> <<>>, extendedText |-> <<>>]>>}
Participants == {<<>>, <<PnJid>>, <<PnLid>>}

\* the messages of the full lifecycle: one of each kind
FewMsgs ==
    [message : {<<>>, <<[conversation |-> MsgHello, extendedText |-> <<>>]>>},
     fromMe : BOOLEAN, remoteJid : {JidLid}, senderPn : {<<>>},
     keyParticipant : {<<>>, <<PnJid>>}, participant : {<<>>}]

\* the messages of the dispatcher's specification
Msgs ==
    {m \in [message : Contents, fromMe : BOOLEAN, remoteJid : {JidPn, JidLid},
            senderPn : Participants, keyParticipant : Participants,
            participant : Participants] :
        (m.fromMe \/ m.message \in {<<>>, <<[conversation |-> <<>>, extendedText |-> <<>>]>>}
           \/ m.remoteJid = JidPn)
        => (m.senderPn = <<>> /\ m.participant = <<>>)}

Batches(M) ==
    {<<m>> : m \in M} \cup
    {<<m, n>> : m \in M, n \in {x \in FewMsgs : x.message # <<>> /\ x.keyParticipant = <<>>}}

\* ------------------------------------------------------------ next-state
ApiAwaits ==
    \/ \E i \in 1..MaxPending, code \in {<<>>, PairCode} : PairingDone(i, code)
    \/ \E i \in 1..MaxPending, ok \in BOOLEAN : SendDone(i, ok)

ApiRequests ==
    \/ \E phone \in {<<>>, <<PhoneFormatted>>, <<PhoneLetters>>} : ReqPairing(phone)
    \/ \E action \in {"send", "test_msg"}, to \in {<<>>, <<PhoneFormatted>>},
          message \in {<<>>, <<MsgHello>>} : ReqSend(action, to, message)
    \/ \E outcome \in LogoutOutcomes, mode \in UnhandledModes :
          ReqForceReset(outcome, mode)
    \/ ReqHome

Fetched ==
    \E i \in 1..MaxFetch, cfg \in {<<>>, <<NoSettings>>, <<AiConfig>>} : FetchDone(i, cfg)

AiAwaits ==
    \/ \E i \in 1..MaxTasks, reply \in {<<>>, <<<<>>>>, <<ReplyOk>>} : AiDone(i, reply)
    \/ \E i \in 1..MaxTasks, ok \in BOOLEAN, mode \in UnhandledModes :
          AiSendDone(i, ok, mode)

Next ==
    \/ Lifecycle
    \/ Fetched
    \/ \E q \in StatusQueries : ReqStatus(q)
    \/ ApiRequests
    \/ ApiAwaits
    \/ \E s \in Sids, type \in {"notify", "append"}, b \in Batches(FewMsgs) :
          Upsert(s, type, b)
    \/ AiAwaits

Spec == Init /\ [][Next]_vars

\* The connection lifecycle with the requests that act on it: every session
\* event, timer, setup failure and credential write, force_reset, and the
\* status request without parameters.
NextLife ==
    \/ Lifecycle
    \/ \E outcome \in LogoutOutcomes, mode \in UnhandledModes :
          ReqForceReset(outcome, mode)
    \/ ReqStatus([key |-> <<>>, admin_url |-> <<>>, referer |-> <<>>])

SpecLife == Init /\ [][NextLife]_vars

\* One session that opens and closes, with the requests of the Control API
\* that act on the session.
OneSession ==
    \/ Listen
    \/ AuthLoaded
    \/ \E g \in Stages, latest \in BOOLEAN : SocketCreate(g, latest)
    \/ \E s \in Sids : OpenEvent(s) \/ SettleDone(s)
    \/ \E s \in Sids : CloseEvent(s, <<428>>, ReasonTimedOut)

NextApi ==
    \/ OneSession
    \/ ReqStatus([key |-> <<>>, admin_url |-> <<>>, referer |-> <<>>])
    \/ ApiRequests
    \/ ApiAwaits

SpecApi == Init /\ [][NextApi]_vars

\* One session that opens and closes, with the status request on every
\* query of StatusQueries and the AI-settings fetches it starts.
NextLink ==
    \/ OneSession
    \/ Fetched
    \/ \E q \in StatusQueries : ReqStatus(q)

SpecLink == Init /\ [][NextLink]_vars

\* One session that opens and closes, the admin linkage, the AI settings and
\* the dispatcher with its AI replies.
NextMsg ==
    \/ OneSession
    \/ Fetched
    \/ ReqStatus([key |-> <<>>, admin_url |-> <<UrlX>>, referer |-> <<>>])
    \/ \E s \in Sids, type \in {"notify", "append"}, b \in Batches(FewMsgs) :
          Upsert(s, type, b)
    \/ AiAwaits

SpecMsg == Init /\ [][NextMsg]_vars

\* One session that opens and closes, and the dispatcher on every message of
\* Msgs: the identity resolution on all its inputs.
NextResolve ==
    \/ OneSession
    \/ \E s \in Sids, m \in Msgs : Upsert(s, "notify", <<m>>)

SpecResolve == Init /\ [][NextResolve]_vars

\* The status queries without key, those with an empty admin_url parameter
\* (admin_url=) included.
AdminQueries ==
    [key : {<<>>}, admin_url : {<<>>, <<<<>>>>, <<UrlX>>},
     referer : {<<>>, <<RefAddon>>, <<RefOther>>}]

\* One session that opens and closes, the status request on every query of
\* AdminQueries with the fetches it starts, and the other requests of the
\* Control API: get_pairing_code, send, force_reset.
NextAdmin ==
    \/ OneSession
    \/ Fetched
    \/ \E q \in AdminQueries : ReqStatus(q)
    \/ ReqPairing(<<PhoneFormatted>>)
    \/ ReqSend("send", <<PhoneFormatted>>, <<>>)
    \/ \E outcome \in LogoutOutcomes : ReqForceReset(outcome, "warn")
    \/ ApiAwaits

SpecAdmin == Init /\ [][NextAdmin]_vars

\* The reconnect chain on its own, with timers that fire: every close event
\* of Codes and Reasons, setup failures at every await, open events and
\* their settle delays. setTimeout callbacks run once their delay has
\* elapsed, which is weak fairness of the two kinds of timer.
NextRecover ==
    \/ Listen
    \/ \E d \in Delays : TimerFire(d)
    \/ AuthLoaded
    \/ \E g \in Stages : SetupFailure(g)
    \/ \E g \in Stages, latest \in BOOLEAN : SocketCreate(g, latest)
    \/ \E s \in Sids : OpenEvent(s) \/ SettleDone(s)
    \/ \E s \in Sids, c \in Codes, r \in Reasons : CloseEvent(s, c, r)

SpecRecover ==
    /\ Init
    /\ [][NextRecover]_vars
    /\ WF_vars(\E d \in Delays : TimerFire(d))
    /\ WF_vars(\E s \in Sids : SettleDone(s))

\* ---------------------------------------------------------- properties
\* The close event the last callback run handled, when it was one.
ClosedWith == eff.op = "close"
CloseCode == eff.inp[1]
CloseReason == eff.inp[2]
HasMarker(reason) == includes(reason, Str_conflict) \/ includes(reason, Str_device_removed)
TimerCount(t) == t[RetryDelay] + t[ResetDelay]

\* C1: a close event whose status code is the terminal logged-out code arms
\* no reconnect timer.
C1_NoReconnectOnLoggedOut ==
    (ClosedWith /\ CloseCode = <<loggedOut>>) => eff.armed = <<>>

C4_TransientReconnectsKeepsCreds ==
    [][(eff'.op = "close"
        /\ eff'.inp[1] # <<401>> /\ ~HasMarker(eff'.inp[2])
        /\ eff'.inp[1] # <<loggedOut>>)
       => /\ TimerCount(timers') = TimerCount(timers) + 1
          /\ eff'.armed = <<RetryDelay>>
          /\ authFolder' = authFolder]_vars

\* a transient close with credentials stored and kept
C4_Witness ==
    /\ ClosedWith
    /\ CloseCode = <<428>>
    /\ CloseReason = ReasonTimedOut
    /\ authFolder = AuthFiles
    /\ eff.armed = <<RetryDelay>>

\* The status snapshot of the last callback run, when it was a status request.
StatusAnswered == eff.op = "status"
Snapshot == eff.resp.body[1]

Resolvable(action, to) == Truthy(to) \/ (action = "test_msg" /\ ownNumber # <<>>)
OnlyDigits(t) == \A i \in 1..Len(t) : t[i] \in Digits
SendRequested == eff.op \in {"send", "test_msg"}
SendFirstPart ==
    SendRequested =>
        /\ ~isConnected =>
              (eff.resp.status = 500 /\ eff.calls = <<>>)
        /\ (isConnected /\ ~Resolvable(eff.op, eff.inp[1])) =>
              (eff.resp.status = 400 /\ eff.calls = <<>>)
        /\ (isConnected /\ Resolvable(eff.op, eff.inp[1])) =>
              /\ eff.resp = NoResp
              /\ Len(eff.calls) = 1
              /\ eff.calls[1][1] = "sendMessage"
SentOk ==
    /\ eff.resp.status = 200
    /\ eff.resp.body[1].messageId = MsgId
    /\ Len(SelectSeq(eff.calls, LAMBDA c : c[1] = "logToWhmcs")) = 1
    /\ eff.calls[1][1] = "logToWhmcs"
    /\ OnlyDigits(eff.calls[1][2])
    /\ eff.calls[1][2] = replaceNonDigits(eff.inp[2])
    /\ eff.calls[1][4] = "out"

\* C6: send / test_msg has exactly three outcomes, decided by connectivity and
\* target: 500 when not connected, 400 when connected without a target,
\* otherwise success with the message identifier and one outbound log call.
C6_ThreeOutcomes ==
    /\ SendFirstPart
    /\ eff.op = "send_done" => SentOk

\* C6 as amended: a fourth outcome exists; when the bridge is connected and a
\* target is resolvable the message is handed to the session, and the
\* response is success with the identifier and one outbound log call if the
\* send resolves, a server error (500) with the exception's message and no
\* log call if the send is rejected.
C6_FourOutcomes ==
    /\ SendFirstPart
    /\ (eff.op = "send_done" /\ eff.inp[1]) => SentOk
    /\ (eff.op = "send_done" /\ ~eff.inp[1]) =>
          (eff.resp.status = 500 /\ eff.resp.error = Str_Rejected /\ eff.calls = <<>>)

\* a send to a formatted number that resolved
C6_Witness ==
    /\ eff.op = "send_done"
    /\ eff.inp[2] = PhoneFormatted
    /\ eff.resp.status = 200
    /\ eff.calls[1][2] = <<"1", "5", "7">>

\* C7: a message flagged as sent by the bridge's own account causes no
\* logging call, no completion request and no send.
C7_NoCallsForOwnMessages ==
    /\ (eff.op = "upsert" /\ eff.inp[2][1].fromMe) => eff.calls = <<>>
    /\ \A i \in 1..Len(tasks) : ~tasks[i].fromMe

\* a live text message of the own account while AI and admin URL are set
C7_Witness ==
    /\ eff.op = "upsert"
    /\ eff.inp[1] = "notify"
    /\ eff.inp[2][1].fromMe
    /\ eff.inp[2][1].message # <<>>
    /\ Truthy(textOf(eff.inp[2][1]))
    /\ aiSettings.key # <<>>
    /\ adminUrl # <<>>
    /\ isConnected

\* The claim's terms, stated on the identifiers themselves.
EndsWith(j, suffix) ==
    Len(j) >= Len(suffix) /\ SubSeq(j, Len(j) - Len(suffix) + 1, Len(j)) = suffix
LocalPart(j) ==
    LET at == {i \in 1..Len(j) : j[i] = "@"}
    IN IF at = {} THEN j
       ELSE SubSeq(j, 1, (CHOOSE i \in at : \A k \in at : i <= k) - 1)
FirstPresent(m) ==
    IF m.senderPn # <<>> THEN m.senderPn
    ELSE IF m.keyParticipant # <<>> THEN m.keyParticipant
    ELSE m.participant
ExpectedPhone(m) ==
    IF EndsWith(m.remoteJid, Str_lid)
       /\ FirstPresent(m) # <<>>
       /\ EndsWith(FirstPresent(m)[1], Str_s_whatsapp_net)
    THEN LocalPart(FirstPresent(m)[1])
    ELSE LocalPart(m.remoteJid)

\* C8: the phone number logged for a message is the local part of the first
\* present participant field when the sender is anonymized (@lid) and that
\* field ends in @s.whatsapp.net, and the sender's local part otherwise.
C8_IdentityResolution ==
    (eff.op = "upsert" /\ eff.calls # <<>>) =>
        /\ eff.calls[1][1] = "logToWhmcs"
        /\ eff.calls[1][2] = ExpectedPhone(eff.inp[2][1])
        /\ eff.calls[1][4] = "in"

\* an anonymized sender whose first present field is anonymized too, a later
\* field carrying a phone number: the anonymized local part is logged
C8_Witness ==
    /\ eff.op = "upsert"
    /\ eff.calls # <<>>
    /\ eff.inp[2][1].remoteJid = JidLid
    /\ eff.inp[2][1].senderPn = <<PnLid>>
    /\ eff.inp[2][1].keyParticipant = <<PnJid>>
    /\ eff.calls[1][2] = <<"7", "7">>

\* C9: a status request with admin_url and key while no admin URL is linked
\* adopts both and starts exactly one AI-settings fetch, with the new URL and
\* the new key.
C9_LinkageAdoptedAndFetched ==
    (StatusAnswered /\ Truthy(eff.inp[1].admin_url) /\ Truthy(eff.inp[1].key)
       /\ eff.inp[3] = <<>>) =>
        /\ apiKey = eff.inp[1].key[1]
        /\ adminUrl = eff.inp[1].admin_url[1]
        /\ Len(eff.calls) = 1
        /\ eff.calls[1][1] = "get_config"
        /\ eff.calls[1][2] = eff.inp[1].admin_url[1]
        /\ eff.calls[1][4] = eff.inp[1].key[1]
        /\ eff.calls[1] \in {fetches[i] : i \in 1..Len(fetches)}

\* the scenario, the key differing from the previous one and a referrer sent
C9_Witness ==
    /\ StatusAnswered
    /\ eff.inp[1] = [key |-> <<KeyABC>>, admin_url |-> <<UrlX>>, referer |-> <<RefAddon>>]
    /\ eff.inp[2] = DefaultKey
    /\ eff.inp[3] = <<>>
    /\ adminUrl = UrlX

\* C10: get_pairing_code without phone answers 400, requests no code and
\* leaves the pending pairing code as it is; with phone, the session is asked
\* for a code with the digits of the parameter, and the code it returns is
\* stored as the pending pairing code.
C10_PairingCode ==
    /\ [](eff.op = "get_pairing_code" =>
            /\ ~Truthy(eff.inp[1]) => (eff.resp.status = 400 /\ eff.calls = <<>>)
            /\ eff.calls # <<>> =>
                  /\ Len(eff.calls) = 1
                  /\ eff.calls[1][1] = "requestPairingCode"
                  /\ OnlyDigits(eff.calls[1][3])
                  /\ eff.calls[1][3] = replaceNonDigits(eff.inp[1][1]))
    /\ []((eff.op = "pairing_done" /\ eff.inp[1] # <<>>) =>
            /\ pairingCode = eff.inp[1]
            /\ eff.resp.status = 200
            /\ eff.resp.body[1].code = eff.inp[1])
    /\ [][(eff'.op = "get_pairing_code" /\ ~Truthy(eff'.inp[1]))
          => (pairingCode' = pairingCode /\ pending' = pending)]_vars

\* a code requested for a formatted number, returned and stored
C10_Witness ==
    /\ eff.op = "pairing_done"
    /\ eff.inp[2] = PhoneFormatted
    /\ pairingCode = PairCode

\* a request without phone while a pairing code is pending
C10_WitnessMissing ==
    /\ eff.op = "get_pairing_code"
    /\ eff.resp.status = 400
    /\ pairingCode = PairCode

\* The callback run that answers a request: the handler itself when it does
\* not wait for the session, the continuation of its await otherwise.
AnsweredAtOnce == {"status", "force_reset", "home"}
MayAwait == {"get_pairing_code", "send", "test_msg"}
Continuations == {"pairing_done", "send_done"}

\* C11: no failure while a request of the Control API is handled terminates
\* the process; every request is answered exactly once, whatever the action
\* and the state (no session object yet, a rejected pairing-code request, a
\* rejected send, a failing logout), and an exception raised by the handler
\* is answered 500 with the exception's message.
C11_RequestFailuresNeverFatal ==
    /\ running
    /\ eff.op \in AnsweredAtOnce => eff.resp.status = 200
    /\ eff.op \in MayAwait => ((eff.resp # NoResp) # (eff.calls # <<>>))
    /\ eff.op \in Continuations => eff.resp # NoResp
    /\ (eff.op = "get_pairing_code" /\ Truthy(eff.inp[1]) /\ eff.sid = 0) =>
          eff.resp = Err(500, Str_TypeError)
    /\ (eff.op = "pairing_done" /\ eff.inp[1] = <<>>) =>
          eff.resp = Err(500, Str_Rejected)
    /\ (eff.op = "send_done" /\ ~eff.inp[1]) => eff.resp = Err(500, Str_Rejected)

\* C12: after a close event or a setup failure with error e, the last-error
\* record stays e, and every status response reports it, until a later error
\* replaces it or a session created after the event completes its settle
\* delay; a settle delay pending from an earlier open event does not erase it.
C12_StatusShowsLatestError ==
    hist.errOwed # <<>> =>
        /\ fullErrorInfo = hist.errOwed
        /\ StatusAnswered => Snapshot.debug = hist.errOwed

\* The reconnect chains: sessions that have not closed, calls of
\* connectToWhatsApp that have not returned, reconnect timers not yet fired.
LiveSessions == Cardinality({s \in Sids : Live(s)})
Creating == connects["load"] + connects["ver0"] + connects["ver1"]

\* C13: in every reachable state the live sessions, the session creations in
\* progress and the scheduled reconnect timers are at most one in all, under
\* any interleaving of close events (one per session), timers, setup
\* failures and force_reset requests.
C13_SingleSession == LiveSessions + Creating + TimerCount(timers) <= 1

\* a force_reset answered while the second chain link waits for its timer:
\* the first session closed, the setup after it failed
C13_Witness ==
    /\ eff.op = "force_reset"
    /\ sess[1].st = "closed"
    /\ hist.errOwed # <<>> /\ hist.errOwed[1].message = Str_EIO
    /\ timers[ResetDelay] = 1
    /\ running

\* C14: with timers that fire, every close event without the logged-out code
\* and every setup failure is eventually followed by a new call of
\* connectToWhatsApp, started by the timer the handler armed; and once the
\* server listens there is no state without a live session, a creation in
\* progress or a reconnect timer.
C14_RecoveryAlwaysRetries ==
    /\ \A d \in Delays :
          (ClosedWith /\ CloseCode # <<loggedOut>> /\ eff.armed = <<d>>)
              ~> (eff.op = "timer" /\ eff.inp = <<d>>)
    /\ (eff.op = "setup_failure") ~> (eff.op = "timer" /\ eff.inp = <<ResetDelay>>)
    /\ [](ClosedWith /\ CloseCode # <<loggedOut>> => eff.armed # <<>>)
    /\ [](listening => LiveSessions + Creating + TimerCount(timers) >= 1)

\* the retry after a transient close of the first session has started
C14_Witness ==
    /\ eff.op = "timer"
    /\ eff.inp = <<RetryDelay>>
    /\ sess[1].st = "closed"
    /\ hist.errOwed = <<[message |-> ReasonTimedOut, code |-> <<428>>]>>
    /\ connects["load"] = 1

\* The most recently created session (0 before the first one).
Latest == Cardinality(Created)

\* C15: whenever the bridge reports connected, the most recent connection
\* event of the most recently created session is an open event: the session
\* is not closed and no reconnect is pending.
C15_ConnectedFlagSound ==
    isConnected =>
        /\ Latest > 0
        /\ sess[Latest].st = "open"
        /\ TimerCount(timers) = 0

\* A message the dispatcher is to process: it carries a text and was not
\* sent by the bridge's own account.
Processable(m) == m.message # <<>> /\ ~m.fromMe /\ Truthy(textOf(m))
InboundLogs(calls) == SelectSeq(calls, LAMBDA c : c[1] = "logToWhmcs" /\ c[4] = "in")

\* C16: for a notify batch, every message of the batch that carries a text
\* and is not self-originated is logged inbound, whatever its position: one
\* logging call (resolved phone, text, "in") for each such message.
C16_EveryMessageLogged ==
    (eff.op = "upsert" /\ eff.inp[1] = "notify") =>
        LET batch == eff.inp[2]
            todo == {k \in 1..Len(batch) : Processable(batch[k])}
        IN /\ \A k \in todo :
                 \E i \in 1..Len(eff.calls) :
                     eff.calls[i] = <<"logToWhmcs", resolvePhone(batch[k]),
                                      textOf(batch[k])[1], "in">>
           /\ Len(InboundLogs(eff.calls)) = Cardinality(todo)

\* The step at which an open event marks the bridge connected.
SettledClean ==
    eff.op = "settled" =>
        /\ isConnected
        /\ qrCode = <<>> /\ pairingCode = <<>> /\ fullErrorInfo = <<>>
        /\ bridgeStatus = St("Connected!")
        /\ eff.calls = fetchAiSettings(adminUrl, apiKey)
        /\ Len(eff.calls) <= 1

\* C17: after an open event the bridge is not marked connected until the
\* settle delay has elapsed, and a status snapshot taken before reports
\* connected = false; at the step where it becomes connected the QR payload,
\* the pairing code and the last-error record are cleared, the status
\* message is "Connected!" and one AI-settings refresh is triggered.
C17_ConnectedOnlyAfterSettle ==
    /\ (\E s \in settles : sess[s].st = "open") =>
          (~isConnected /\ (StatusAnswered => ~Snapshot.connected))
    /\ SettledClean

\* The calls of one kind among the calls of a callback run.
CallsOf(kind) == SelectSeq(eff.calls, LAMBDA c : c[1] = kind)
OutboundLogs == SelectSeq(eff.calls, LAMBDA c : c[1] = "logToWhmcs" /\ c[4] = "out")
Dispatched ==
    /\ eff.op = "upsert"
    /\ eff.inp[1] = "notify"
    /\ Processable(eff.inp[2][1])

\* C18: for a processed inbound message the inbound log call is always
\* issued and a completion is requested exactly when the provider key is
\* non-empty at dispatch; the reply is sent, to the raw sender identifier,
\* only when the completion returned a non-empty text; the outbound log call
\* (resolved phone, reply, "out") is issued only when that send has resolved;
\* with an empty key, a failed or an empty completion there is no send and
\* no outbound log.
C18_AiReplyGatingAndOrder ==
    /\ Dispatched =>
          LET msg == eff.inp[2][1]
          IN /\ eff.calls[1] = <<"logToWhmcs", resolvePhone(msg), textOf(msg)[1], "in">>
             /\ Len(CallsOf("completions")) = (IF aiSettings.key # <<>> THEN 1 ELSE 0)
             /\ \A i \in 1..Len(CallsOf("completions")) :
                    /\ CallsOf("completions")[i][4] = textOf(msg)[1]
                    /\ CallsOf("completions")[i][5] = aiSettings.key
             /\ aiSettings.key # <<>> =>
                    \E i \in 1..Len(tasks) :
                        /\ tasks[i].stage = "ai"
                        /\ tasks[i].sender = msg.remoteJid
                        /\ tasks[i].phone = resolvePhone(msg)
             /\ CallsOf("sendMessage") = <<>> /\ OutboundLogs = <<>>
    /\ eff.op = "ai_done" =>
          /\ OutboundLogs = <<>>
          /\ ~Truthy(eff.inp[1]) => eff.calls = <<>>
          /\ Truthy(eff.inp[1]) =>
                /\ Len(eff.calls) = 1
                /\ eff.calls[1][1] = "sendMessage"
                /\ eff.calls[1][4] = eff.inp[1][1]
                /\ \E i \in 1..Len(tasks) :
                       /\ tasks[i].stage = "send"
                       /\ tasks[i].sender = eff.calls[1][3]
                       /\ tasks[i].reply = eff.inp[1][1]
    /\ eff.op = "ai_sent" =>
          /\ CallsOf("sendMessage") = <<>>
          /\ ~eff.inp[1] => eff.calls = <<>>
          /\ eff.inp[1] =>
                /\ Len(OutboundLogs) = 1
                /\ eff.calls[1] = <<"logToWhmcs", eff.inp[2], eff.inp[3], "out">>
    /\ \A i \in 1..Len(tasks) :
          /\ tasks[i].sender = JidLid
          /\ tasks[i].phone \in {<<"7", "7">>, <<"3", "4", ":", "1">>}

\* the reply to a message of an anonymized sender with a phone-numbered
\* participant was sent to the @lid identifier and logged under the number
C18_Witness ==
    /\ eff.op = "ai_sent"
    /\ eff.inp = <<TRUE, <<"3", "4", ":", "1">>, ReplyOk>>
    /\ Len(OutboundLogs) = 1
    /\ adminUrl = UrlX

\* The last callback run completed a get_config request that failed: the
\* request was in error, or its response carried no provider key.
FetchFailed == eff.op = "fetched" /\ (eff.inp = <<>> \/ eff.inp[1].key = <<>>)

\* C19: after an AI-settings fetch has failed, and until a later fetch
\* succeeds, the provider key in effect is empty and no completion is
\* requested for inbound messages, whatever an earlier fetch had loaded.
C19_FailedFetchDisablesAi ==
    hist.fetchFailed =>
        /\ aiSettings.key = <<>>
        /\ Dispatched => CallsOf("completions") = <<>>

\* C19 as amended: a failed fetch leaves the AI settings in effect as they
\* were. Auto-reply stays disabled (empty key, no completion requested) when
\* no fetch has succeeded before, and stays enabled with the settings of the
\* last successful fetch otherwise.
C19_FailedFetchKeepsSettings ==
    /\ [][(eff'.op = "fetched" /\ (eff'.inp = <<>> \/ eff'.inp[1].key = <<>>))
            => aiSettings' = aiSettings]_vars
    /\ [](~hist.fetchedOk =>
            /\ aiSettings = NoSettings
            /\ Dispatched => CallsOf("completions") = <<>>)
    /\ []((hist.fetchFailed /\ hist.fetchedOk) =>
            /\ aiSettings = AiConfig
            /\ Dispatched => Len(CallsOf("completions")) = 1)

\* a message dispatched with a completion request after a failed fetch that
\* followed a successful one
C19_Witness ==
    /\ Dispatched
    /\ hist.fetchFailed /\ hist.fetchedOk
    /\ Len(CallsOf("completions")) = 1

\* C20: once the admin URL is non-empty it stays non-empty after every
\* request and session event; a non-empty admin URL is changed only by a
\* status request, to the admin_url parameter the request supplies, never to
\* a value inferred from the referrer, and a request that supplies admin_url
\* adopts that value whatever its referrer.
C20_AdminLinkageNeverUnset ==
    /\ [][adminUrl # <<>> => adminUrl' # <<>>]_vars
    /\ [][(adminUrl # <<>> /\ adminUrl' # adminUrl) =>
            /\ eff'.op = "status"
            /\ Truthy(eff'.inp[1].admin_url)
            /\ adminUrl' = eff'.inp[1].admin_url[1]]_vars
    /\ [][(eff'.op = "status" /\ Truthy(eff'.inp[1].admin_url)) =>
            adminUrl' = eff'.inp[1].admin_url[1]]_vars
    /\ [][adminUrl' # adminUrl => eff'.op = "status"]_vars

\* a status request from the addon page, with an empty admin_url parameter,
\* answered after a force_reset while the explicitly supplied URL is linked
C20_Witness ==
    /\ StatusAnswered
    /\ eff.inp[1] = [key |-> <<>>, admin_url |-> <<<<>>>>, referer |-> <<RefAddon>>]
    /\ eff.inp[3] = UrlX
    /\ adminUrl = UrlX
    /\ hist.resetEmpty

====
